---- MODULE Spec2Model ----
(***************************************************************************)
(* A model of src/app.py, the Streamlit listing browser: load_data (read   *)
(* the CSV, normalise Price / SqFtTotFn / DOM, cached by st.cache_data),   *)
(* the sidebar controls, the row mask, the sort and the rendered result.   *)
(*                                                                         *)
(* Numbers are fixed-point with one decimal digit: the float x is the      *)
(* integer 10x ("tenths"), so int() truncation, float formatting and       *)
(* parsing are not the identity.  A cell of the table read by read_csv is  *)
(* a tagged record: a number, NaN (an empty cell) or a string, and a       *)
(* string is a sequence of one-character strings.                          *)
(***************************************************************************)
EXTENDS Integers, Sequences, FiniteSets, TLC

VARIABLES file, cache, ui, view, runs

vars == <<file, cache, ui, view, runs>>

(***************************************************************************)
(* Bounds of the model.                                                    *)
(***************************************************************************)
\* Reruns of the script in one session.
MaxInteractions == 4
\* Longest raw Price / SqFtTotFn string the normaliser is run on.
MaxLen == 4
\* Largest magnitude (in tenths) of an already numeric raw cell.
MaxMag == 15
\* Largest value picked in the Min Beds / Min Baths inputs.
MaxPick == 3

\* st.number_input("Min Beds", 0, 10, 0): the input's maximum.
NumberInputMax == 10
\* st.slider("Price Range", ..., step=10000)
PriceStep == 10000
\* st.slider("Square Footage", ..., step=100)
SqFtStep == 100

(***************************************************************************)
(* Values.                                                                 *)
(***************************************************************************)
NaN == [k |-> "nan"]
Num(v) == [k |-> "num", v |-> v]
Str(s) == [k |-> "str", s |-> s]
\* The number n + d/10.
Dec(n, d) == Num(n * 10 + d)
IsNum(x) == x.k = "num"
IsNaN(x) == x.k = "nan"
IsStr(x) == x.k = "str"

Digits == <<"0", "1", "2", "3", "4", "5", "6", "7", "8", "9">>
IsDigit(c) == \E i \in 1..10 : Digits[i] = c
DigitVal(c) == (CHOOSE i \in 1..10 : Digits[i] = c) - 1
AllDigits(s) == \A i \in 1..Len(s) : IsDigit(s[i])

RECURSIVE ParseNat(_)
ParseNat(s) ==
  IF s = <<>> THEN 0
  ELSE 10 * ParseNat(SubSeq(s, 1, Len(s) - 1)) + DigitVal(s[Len(s)])

RECURSIVE FormatNat(_)
FormatNat(n) ==
  IF n < 10 THEN <<Digits[n + 1]>>
  ELSE FormatNat(n \div 10) \o <<Digits[(n % 10) + 1]>>

Abs(v) == IF v < 0 THEN -v ELSE v
Sign(v) == IF v < 0 THEN <<"-">> ELSE <<>>

\* str() of an int64 value: "-50".
FormatInt(v) == Sign(v) \o FormatNat(Abs(v) \div 10)
\* str() of a float64 value: "150.5", "-50.0".
FormatFloat(v) ==
  Sign(v) \o FormatNat(Abs(v) \div 10) \o <<".">> \o FormatNat(Abs(v) % 10)

\* pd.to_numeric(..., errors='coerce') of one string: an optional sign,
\* digits, an optional fraction; anything else is NaN.  (Strings with more
\* than one fractional digit are outside the model's numbers.)
ToNumeric(s) ==
  LET neg  == s # <<>> /\ s[1] = "-"
      body == IF neg THEN Tail(s) ELSE s
      dots == {i \in 1..Len(body) : body[i] = "."}
      d    == IF dots = {} THEN Len(body) + 1 ELSE CHOOSE i \in dots : TRUE
      ip   == SubSeq(body, 1, d - 1)
      fp   == SubSeq(body, d + 1, Len(body))
      ok   == /\ Cardinality(dots) <= 1
              /\ AllDigits(ip) /\ AllDigits(fp)
              /\ Len(ip) + Len(fp) > 0
              /\ Len(fp) <= 1
      mag  == ParseNat(ip) * 10 + (IF fp = <<>> THEN 0 ELSE DigitVal(fp[1]))
  IN  IF ok THEN Num(IF neg THEN -mag ELSE mag) ELSE NaN

\* Series.fillna(0) of one value.
FillNa0(x) == IF IsNaN(x) THEN Num(0) ELSE x

\* dtype == 'O': read_csv gives object dtype to a column holding a string
\* (and to every column of a table without rows).
IsObject(rows, col) ==
  Len(rows) = 0 \/ \E i \in 1..Len(rows) : IsStr(rows[i][col])

\* A numeric column is int64 when every cell is a whole number, float64
\* otherwise (a NaN makes it float64).
IsInt64(rows, col) ==
  \A i \in 1..Len(rows) : IsNum(rows[i][col]) /\ rows[i][col].v % 10 = 0

\* Series.astype(str) of row i's cell.
AsTypeStr(rows, col, i) ==
  LET c == rows[i][col]
  IN  CASE IsStr(c) -> c.s
        [] IsNaN(c) -> <<"n", "a", "n">>
        [] OTHER    -> IF IsInt64(rows, col) THEN FormatInt(c.v)
                       ELSE FormatFloat(c.v)

\* A Clean Price that strips the "$" only.
StripNoComma(s) == SelectSeq(s, LAMBDA c : c # "$")
\* str.replace(r'[$,]', '', regex=True)
StripPrice(s) == SelectSeq(s, LAMBDA c : c # "$" /\ c # ",")
\* str.replace(',', '', regex=False)
StripSqFt(s) == SelectSeq(s, LAMBDA c : c # ",")

(***************************************************************************)
(* load_data: read the CSV and add Clean_Price, Clean_SqFt and a numeric   *)
(* DOM.  The source file is missing, not a table, or a table: its columns  *)
(* and its rows (a row maps each column to a cell).                        *)
(***************************************************************************)
Missing == [kind |-> "missing"]
Invalid == [kind |-> "invalid"]
Csv(cols, rows) == [kind |-> "csv", cols |-> cols, rows |-> rows]

\* Clean Price: strip "$" and ",", parse, 0 on failure, when the column is
\* textual; the column as it is when it is numeric.
CleanPrice(rows, i) ==
  IF IsObject(rows, "Price")
  THEN FillNa0(ToNumeric(StripPrice(AsTypeStr(rows, "Price", i))))
  ELSE rows[i]["Price"]

\* Clean SqFt: strip ",", parse, 0 on failure; 0 when the column is absent.
CleanSqFt(cols, rows, i) ==
  IF "SqFtTotFn" \in cols
  THEN FillNa0(ToNumeric(StripSqFt(AsTypeStr(rows, "SqFtTotFn", i))))
  ELSE Num(0)

\* Clean DOM: pd.to_numeric(df['DOM'], errors='coerce').fillna(0)
CleanDOM(rows, i) ==
  LET c == rows[i]["DOM"]
  IN  FillNa0(IF IsStr(c) THEN ToNumeric(c.s) ELSE c)

Raise(exc) == [status |-> "raise", exc |-> exc]
NoneResult == [status |-> "none"]

load_data(f) ==
  CASE f.kind = "missing" -> NoneResult
    [] f.kind = "invalid" -> Raise("ParserError")
    [] OTHER ->
         IF "Price" \notin f.cols THEN Raise("KeyError")
         ELSE [status |-> "ok",
               cols   |-> f.cols \cup {"Clean_Price", "Clean_SqFt"},
               rows   |-> [i \in 1..Len(f.rows) |->
                             [c \in f.cols \cup {"Clean_Price", "Clean_SqFt"} |->
                                CASE c = "Clean_Price" -> CleanPrice(f.rows, i)
                                  [] c = "Clean_SqFt"  -> CleanSqFt(f.cols, f.rows, i)
                                  [] c = "DOM"         -> CleanDOM(f.rows, i)
                                  [] OTHER             -> f.rows[i][c]]]]

\* @st.cache_data on a function without arguments: one entry, filled by the
\* first call that returns (a raised exception is not stored), never dropped.
\* The cache is <<>> or <<the stored return value>>.
CachedCall(c, f) == IF c # <<>> THEN c[1] ELSE load_data(f)
CacheAfter(c, f) ==
  IF c # <<>> THEN c
  ELSE IF load_data(f).status = "raise" THEN <<>> ELSE <<load_data(f)>>

(***************************************************************************)
(* The sidebar controls.  The session keeps each widget's value across     *)
(* reruns; a slider the user has not touched returns its default, which    *)
(* is computed from the dataset.  (The datasets of the model keep every    *)
(* slider's default inside its minimum and maximum.)                       *)
(***************************************************************************)
Untouched == [set |-> FALSE, val |-> <<0, 0>>]
Touched(lo, hi) == [set |-> TRUE, val |-> <<lo, hi>>]

SortOptions ==
  <<"Price: High to Low", "Price: Low to High", "Newest (DOM)", "SqFt: High to Low">>

\* Every widget at its initial value.
DefaultUI ==
  [search |-> <<>>, cities |-> {}, price |-> Untouched, beds |-> 0, baths |-> 0,
   sqft |-> Untouched, dom |-> Untouched, sort |-> SortOptions[1]]

\* int(x) of a float: truncation toward zero (x in tenths, the result whole).
PyInt(v) == IF v >= 0 THEN v \div 10 ELSE -((-v) \div 10)

\* Series.min() / Series.max(): NaN is skipped; NaN when nothing is left.
NumsOf(rows, col) == {rows[i][col].v : i \in {j \in 1..Len(rows) : IsNum(rows[j][col])}}
SeriesMin(rows, col) ==
  LET s == NumsOf(rows, col)
  IN  IF s = {} THEN NaN ELSE Num(CHOOSE m \in s : \A x \in s : m <= x)
SeriesMax(rows, col) ==
  LET s == NumsOf(rows, col)
  IN  IF s = {} THEN NaN ELSE Num(CHOOSE m \in s : \A x \in s : m >= x)

\* cities = sorted(df['City'].unique()): the options of the multiselect.
CityOptions(df) ==
  IF "City" \in df.cols THEN {df.rows[i]["City"].s : i \in 1..Len(df.rows)} ELSE {}

min_p(df) == PyInt(SeriesMin(df.rows, "Clean_Price").v)
max_p(df) == PyInt(SeriesMax(df.rows, "Clean_Price").v)
max_sq(df) == PyInt(SeriesMax(df.rows, "Clean_SqFt").v)
\* int(df.get('DOM', pd.Series([0])).max())
max_dom(df) == IF "DOM" \in df.cols THEN PyInt(SeriesMax(df.rows, "DOM").v) ELSE 0

SliderValue(w, lo, hi) == IF w.set THEN w.val ELSE <<lo, hi>>

search_term(u) == u.search
selected_cities(df, u) == IF "City" \in df.cols THEN u.cities ELSE {}
price_range(df, u) == SliderValue(u.price, min_p(df), max_p(df))
min_beds(u) == u.beds
min_baths(u) == u.baths
sqft_range(df, u) == SliderValue(u.sqft, 0, max_sq(df))
dom_range(df, u) == SliderValue(u.dom, 0, max_dom(df))
sort_option(u) == u.sort

\* The positions a slider's handles can be put on: min, min + step, ...,
\* and the maximum, where the upper handle starts.
SliderPicks(lo, hi, step) ==
  LET grid == {lo + k * step : k \in 0..((hi - lo) \div step)}
  IN  {<<a, b>> \in grid \X (grid \cup {hi}) : a <= b}

(***************************************************************************)
(* The row mask.                                                           *)
(***************************************************************************)
\* A between that leaves the lower bound out.
BetweenOpenLow(x, lo, hi) == IsNum(x) /\ lo * 10 < x.v /\ x.v <= hi * 10
\* Series.between(lo, hi): inclusive on both sides, False for NaN.
Between(x, lo, hi) == IsNum(x) /\ lo * 10 <= x.v /\ x.v <= hi * 10

UpperCase == <<"A", "B", "C", "D", "E", "F", "G", "H", "I", "J", "K", "L", "M",
               "N", "O", "P", "Q", "R", "S", "T", "U", "V", "W", "X", "Y", "Z">>
LowerCase == <<"a", "b", "c", "d", "e", "f", "g", "h", "i", "j", "k", "l", "m",
               "n", "o", "p", "q", "r", "s", "t", "u", "v", "w", "x", "y", "z">>
LowerChar(c) ==
  IF \E i \in 1..26 : UpperCase[i] = c
  THEN LowerCase[CHOOSE i \in 1..26 : UpperCase[i] = c]
  ELSE c
\* str.lower()
Lower(s) == [i \in 1..Len(s) |-> LowerChar(s[i])]

\* str.contains(pat) with its default regex=True, for patterns of literal
\* characters and ".", which matches any character: re.search(pat, s).
Contains(s, pat) ==
  \E off \in 0..(Len(s) - Len(pat)) :
     \A j \in 1..Len(pat) : pat[j] = "." \/ pat[j] = s[off + j]

\* df['Address'].str.lower().str.contains(term, na=False)
AddressMatch(df, term, i) ==
  LET c == df.rows[i]["Address"]
  IN  IsStr(c) /\ Contains(Lower(c.s), term)

\* df['MLS #'].astype(str).str.contains(term, na=False)
MlsMatch(df, term, i) == Contains(AsTypeStr(df.rows, "MLS #", i), term)

\* A city term that is applied to an empty selection too.
CityTermUnguarded(df, sel, i) == "City" \in df.cols => df.rows[i]["City"].s \in sel
\* if selected_cities: mask = mask & df['City'].isin(selected_cities)
CityTerm(df, sel, i) == sel = {} \/ df.rows[i]["City"].s \in sel

\* if search_term: ... Address contains term | MLS # contains term
SearchTerm(df, s, i) ==
  s = <<>> \/ AddressMatch(df, Lower(s), i) \/ MlsMatch(df, Lower(s), i)

\* df[col] >= n: False for NaN.
AtLeast(x, n) == IsNum(x) /\ x.v >= n * 10

\* The subscripts df['Address'] and df['MLS #'] of the search term raise
\* KeyError when the column is not in the table.
MaskRaises(df, u) ==
  search_term(u) # <<>> /\ ("Address" \notin df.cols \/ "MLS #" \notin df.cols)

\* The terms of the mask, in the order the script adds them.
PriceTerm(df, u, i) ==
  Between(df.rows[i]["Clean_Price"], price_range(df, u)[1], price_range(df, u)[2])
SqFtTerm(df, u, i) ==
  Between(df.rows[i]["Clean_SqFt"], sqft_range(df, u)[1], sqft_range(df, u)[2])
DomTerm(df, u, i) ==
  "DOM" \in df.cols => Between(df.rows[i]["DOM"], dom_range(df, u)[1], dom_range(df, u)[2])
BedsTerm(df, u, i) ==
  "Bedrooms Total" \in df.cols => AtLeast(df.rows[i]["Bedrooms Total"], min_beds(u))
BathsTerm(df, u, i) ==
  "Bathrooms Total" \in df.cols => AtLeast(df.rows[i]["Bathrooms Total"], min_baths(u))

Mask(df, u, i) ==
  /\ PriceTerm(df, u, i)
  /\ SqFtTerm(df, u, i)
  /\ DomTerm(df, u, i)
  /\ CityTerm(df, selected_cities(df, u), i)
  /\ SearchTerm(df, search_term(u), i)
  /\ BedsTerm(df, u, i)
  /\ BathsTerm(df, u, i)

\* filtered_df = df[mask]: the kept row numbers, in the table's order.
Filtered(df, u) == SelectSeq([i \in 1..Len(df.rows) |-> i], LAMBDA i : Mask(df, u, i))

(***************************************************************************)
(* The sort.  sort_values is called with its default kind='quicksort',     *)
(* which is not a stable sort: the order among rows of equal key is left   *)
(* to the sort, so every order sorted by the key is a possible result.     *)
(* NaN keys go last (na_position='last').                                  *)
(***************************************************************************)
Range(s) == {s[i] : i \in 1..Len(s)}
Orders(s) == {p \in [1..Len(s) -> Range(s)] : Range(p) = Range(s)}

InOrder(a, b, asc) ==
  \/ IsNaN(b)
  \/ IsNum(a) /\ IsNum(b) /\ (IF asc THEN a.v <= b.v ELSE a.v >= b.v)

sort_values(df, s, col, asc) ==
  {p \in Orders(s) :
     \A j \in 1..(Len(p) - 1) : InOrder(df.rows[p[j]][col], df.rows[p[j + 1]][col], asc)}

Sorted(df, u, s) ==
  CASE sort_option(u) = "Price: Low to High" -> sort_values(df, s, "Clean_Price", TRUE)
    [] sort_option(u) = "Price: High to Low" -> sort_values(df, s, "Clean_Price", FALSE)
    [] sort_option(u) = "Newest (DOM)" /\ "DOM" \in df.cols -> sort_values(df, s, "DOM", TRUE)
    [] sort_option(u) = "SqFt: High to Low" -> sort_values(df, s, "Clean_SqFt", FALSE)
    [] OTHER -> {s}

(***************************************************************************)
(* One run of the script from df = load_data() to the listing: what the    *)
(* page shows.  kind is "load_error" (the st.error message), "exception"   *)
(* (the run ended in an uncaught exception) or "results" (the count and    *)
(* the listing, the "No listings found" note when it is empty); widgets    *)
(* are the controls the run got to draw.                                   *)
(***************************************************************************)
NoView == [kind |-> "none", exc |-> "", widgets |-> {}, rows |-> <<>>, count |-> 0]
LoadErrorView == [kind |-> "load_error", exc |-> "", widgets |-> {}, rows |-> <<>>, count |-> 0]
ExceptionView(exc, w) == [kind |-> "exception", exc |-> exc, widgets |-> w, rows |-> <<>>, count |-> 0]
ResultsView(p, w) == [kind |-> "results", exc |-> "", widgets |-> w, rows |-> p, count |-> Len(p)]

SidebarTop(df) == {"search"} \cup (IF "City" \in df.cols THEN {"cities"} ELSE {})
Sidebar(df) == SidebarTop(df) \cup {"price", "beds", "baths", "sqft", "dom"}

Script(res, u) ==
  CASE res.status = "raise" -> {ExceptionView(res.exc, {})}
    [] res.status = "none"  -> {LoadErrorView}
    [] OTHER ->
         \* int(df['Clean_Price'].min()): int(nan) raises ValueError.  Past
         \* this line the table has a row, and Clean_SqFt and DOM hold no NaN.
         IF IsNaN(SeriesMin(res.rows, "Clean_Price"))
         THEN {ExceptionView("ValueError", SidebarTop(res))}
         ELSE IF MaskRaises(res, u)
         THEN {ExceptionView("KeyError", Sidebar(res))}
         ELSE {ResultsView(p, Sidebar(res) \cup {"sort"}) :
                 p \in Sorted(res, u, Filtered(res, u))}

(***************************************************************************)
(* The source files the model is run on: the tables as read_csv returns    *)
(* them.  A City cell is a string, a Bedrooms / Bathrooms cell a number or *)
(* NaN, an Address column holds a string, and no Clean_SqFt or DOM column  *)
(* has a negative maximum.                                                 *)
(***************************************************************************)
\* Every column, a textual Price; rows 1 and 3 tie on price, rows 2 and 3 on SqFt and DOM.
Listings ==
  Csv({"Price", "Address", "City", "SqFtTotFn", "DOM", "MLS #", "Bedrooms Total", "Bathrooms Total"},
    <<
       ("Price" :> Str(<<"$", "3", "0", "0", ",", "0", "0", "0">>)
        @@ "Address" :> Str(<<"M", "a", "i", "n">>)
        @@ "City" :> Str(<<"N", "a", "s", "h", "u", "a">>)
        @@ "SqFtTotFn" :> Str(<<"1", "0", "0">>)
        @@ "DOM" :> Dec(0, 0)
        @@ "MLS #" :> Str(<<"N", "H", "1">>)
        @@ "Bedrooms Total" :> Dec(3, 0)
        @@ "Bathrooms Total" :> Dec(2, 0)),
       ("Price" :> Str(<<"$", "3", "1", "0", ",", "0", "0", "0">>)
        @@ "Address" :> Str(<<"O", "a", "k">>)
        @@ "City" :> Str(<<"C", "o", "n", "c", "o", "r", "d">>)
        @@ "SqFtTotFn" :> Str(<<"2", "0", "0">>)
        @@ "DOM" :> Dec(2, 0)
        @@ "MLS #" :> Str(<<"4", "9">>)
        @@ "Bedrooms Total" :> Dec(2, 0)
        @@ "Bathrooms Total" :> Dec(1, 0)),
       ("Price" :> Str(<<"$", "3", "0", "0", ",", "0", "0", "0">>)
        @@ "Address" :> Str(<<"M", "A", "I", "N">>)
        @@ "City" :> Str(<<"N", "a", "s", "h", "u", "a">>)
        @@ "SqFtTotFn" :> Str(<<"2", "0", "0">>)
        @@ "DOM" :> Dec(2, 0)
        @@ "MLS #" :> Str(<<"n", "h", "2">>)
        @@ "Bedrooms Total" :> Dec(3, 0)
        @@ "Bathrooms Total" :> Dec(1, 0))>>)

\* Only Price, Address and MLS #: no City, SqFtTotFn, DOM, Bedrooms or Bathrooms column.
Sparse ==
  Csv({"Price", "Address", "MLS #"},
    <<
       ("Price" :> Dec(300000, 0)
        @@ "Address" :> Str(<<"M", "a", "i", "n">>)
        @@ "MLS #" :> Str(<<"N", "H", "1">>)),
       ("Price" :> Dec(320000, 0)
        @@ "Address" :> Str(<<"O", "a", "k">>)
        @@ "MLS #" :> Str(<<"4", "9">>))>>)

\* No MLS # column.
NoMls ==
  Csv({"Price", "Address", "City", "Bedrooms Total"},
    <<
       ("Price" :> Dec(300000, 0)
        @@ "Address" :> Str(<<"M", "a", "i", "n">>)
        @@ "City" :> Str(<<"N", "a", "s", "h", "u", "a">>)
        @@ "Bedrooms Total" :> Dec(3, 0)),
       ("Price" :> Dec(310000, 0)
        @@ "Address" :> Str(<<"O", "a", "k">>)
        @@ "City" :> Str(<<"C", "o", "n", "c", "o", "r", "d">>)
        @@ "Bedrooms Total" :> Dec(2, 0))>>)

\* No Address column; a textual DOM column.
NoAddress ==
  Csv({"Price", "MLS #", "DOM"},
    <<
       ("Price" :> Dec(300000, 0)
        @@ "MLS #" :> Str(<<"N", "H", "1">>)
        @@ "DOM" :> Str(<<"1">>)),
       ("Price" :> Dec(300000, 0)
        @@ "MLS #" :> Str(<<"4", "9">>)
        @@ "DOM" :> Str(<<"n", "e", "w">>))>>)

\* Numeric columns with fractional, negative and missing values.
Fractional ==
  Csv({"Price", "Address", "SqFtTotFn", "DOM", "MLS #", "Bedrooms Total", "Bathrooms Total"},
    <<
       ("Price" :> Dec(300000, 5)
        @@ "Address" :> NaN
        @@ "SqFtTotFn" :> Dec(-50, 0)
        @@ "DOM" :> Dec(-1, 0)
        @@ "MLS #" :> NaN
        @@ "Bedrooms Total" :> NaN
        @@ "Bathrooms Total" :> Dec(1, 0)),
       ("Price" :> Dec(310000, 5)
        @@ "Address" :> Str(<<"E", "l", "m">>)
        @@ "SqFtTotFn" :> Dec(150, 5)
        @@ "DOM" :> Dec(1, 0)
        @@ "MLS #" :> Str(<<"7">>)
        @@ "Bedrooms Total" :> Dec(2, 0)
        @@ "Bathrooms Total" :> NaN),
       ("Price" :> Dec(305000, 0)
        @@ "Address" :> Str(<<"M", "a", "i", "n">>)
        @@ "SqFtTotFn" :> Dec(100, 0)
        @@ "DOM" :> Dec(0, 0)
        @@ "MLS #" :> Str(<<"N", "H", "3">>)
        @@ "Bedrooms Total" :> Dec(1, 0)
        @@ "Bathrooms Total" :> Dec(1, 0))>>)

\* No Price column.
NoPrice ==
  Csv({"Address", "City"},
    <<
       ("Address" :> Str(<<"M", "a", "i", "n">>)
        @@ "City" :> Str(<<"N", "a", "s", "h", "u", "a">>))>>)

\* A header and no rows.
HeaderOnly ==
  Csv({"Price", "Address", "City", "SqFtTotFn", "DOM", "MLS #", "Bedrooms Total", "Bathrooms Total"},
    <<>>)

Sources == {Missing, Invalid, Listings, Sparse, NoMls, NoAddress, Fractional, NoPrice, HeaderOnly}

\* What is typed in the search box.
SearchTerms == {<<>>, <<"m", "a", "i", "n">>, <<"N", "H">>, <<"4">>, <<"m", "a", ".", "n">>, <<"n", "a", "n">>}

Min(a, b) == IF a <= b THEN a ELSE b

(***************************************************************************)
(* The session.  file is the source on disk, cache the entry st.cache_data *)
(* holds for load_data, ui the widgets' values, view what the last run     *)
(* showed, runs the number of runs of the script so far.                   *)
(***************************************************************************)
Init ==
  /\ file \in Sources
  /\ cache = <<>>
  /\ ui = DefaultUI
  /\ view = NoView
  /\ runs = 0

\* One run of the script, top to bottom, with the widgets at u.
Rerun(u) ==
  /\ runs < MaxInteractions
  /\ runs' = runs + 1
  /\ ui' = u
  /\ cache' = CacheAfter(cache, file)
  /\ view' \in Script(CachedCall(cache, file), u)
  /\ UNCHANGED file

\* The page is opened or reloaded.
Open == Rerun(ui)

SetSearch ==
  /\ "search" \in view.widgets
  /\ \E t \in SearchTerms \ {ui.search} : Rerun([ui EXCEPT !.search = t])

SetCities ==
  /\ "cities" \in view.widgets
  /\ \E c \in (SUBSET CityOptions(cache[1])) \ {ui.cities} :
        Rerun([ui EXCEPT !.cities = c])

SetPrice ==
  /\ "price" \in view.widgets
  /\ \E r \in SliderPicks(min_p(cache[1]), max_p(cache[1]), PriceStep)
               \ {price_range(cache[1], ui)} :
        Rerun([ui EXCEPT !.price = Touched(r[1], r[2])])

SetBeds ==
  /\ "beds" \in view.widgets
  /\ \E n \in (0..Min(NumberInputMax, MaxPick)) \ {ui.beds} :
        Rerun([ui EXCEPT !.beds = n])

SetBaths ==
  /\ "baths" \in view.widgets
  /\ \E n \in (0..Min(NumberInputMax, MaxPick)) \ {ui.baths} :
        Rerun([ui EXCEPT !.baths = n])

SetSqft ==
  /\ "sqft" \in view.widgets
  /\ \E r \in SliderPicks(0, max_sq(cache[1]), SqFtStep) \ {sqft_range(cache[1], ui)} :
        Rerun([ui EXCEPT !.sqft = Touched(r[1], r[2])])

SetDom ==
  /\ "dom" \in view.widgets
  /\ \E r \in SliderPicks(0, max_dom(cache[1]), 1) \ {dom_range(cache[1], ui)} :
        Rerun([ui EXCEPT !.dom = Touched(r[1], r[2])])

SetSort ==
  /\ "sort" \in view.widgets
  /\ \E o \in Range(SortOptions) \ {ui.sort} : Rerun([ui EXCEPT !.sort = o])

Next ==
  \/ Open
  \/ SetSearch
  \/ SetCities
  \/ SetPrice
  \/ SetBeds
  \/ SetBaths
  \/ SetSqft
  \/ SetDom
  \/ SetSort

Spec == Init /\ [][Next]_vars

(***************************************************************************)
(* The source file changes under the running app.                          *)
(***************************************************************************)
WriteFile ==
  /\ \E f \in Sources \ {file} : file' = f
  /\ UNCHANGED <<cache, ui, view, runs>>

NextCache ==
  \/ WriteFile
  \/ Open
  \/ SetSort

SpecCache == Init /\ [][NextCache]_vars

(***************************************************************************)
(* The normaliser on its own: load_data applied to one-column-pair tables  *)
(* whose Price and SqFtTotFn cells range over every short string of the    *)
(* alphabet, a few real prices, and the small numbers and NaN.             *)
(***************************************************************************)
NormAlphabet == {"$", ",", "-", "0", "1", "a"}
SamplePrices ==
  {<<"$", "1", ",", "2", "5", "0", ",", "0", "0", "0">>,
   <<"$", "4", "5", "0", ",", "0", "0", "0">>,
   <<"-", "$", "4", "5", "0">>}
NormStrings == UNION {[1..n -> NormAlphabet] : n \in 0..MaxLen} \cup SamplePrices
NormCells == {Str(s) : s \in NormStrings} \cup {Num(v) : v \in (-MaxMag)..MaxMag} \cup {NaN}
NormRow(c) == ("Price" :> c @@ "SqFtTotFn" :> c)
\* One row, and the same row above a row of empty cells.
NormSources ==
  {Csv({"Price", "SqFtTotFn"}, <<NormRow(c)>>) : c \in NormCells}
    \cup {Csv({"Price", "SqFtTotFn"}, <<NormRow(c), NormRow(NaN)>>) : c \in NormCells}

InitNorm ==
  /\ file \in NormSources
  /\ cache = <<>>
  /\ ui = DefaultUI
  /\ view = NoView
  /\ runs = 0

\* df = load_data()
LoadData ==
  /\ cache = <<>>
  /\ cache' = CacheAfter(cache, file)
  /\ UNCHANGED <<file, ui, view, runs>>

NextNorm == LoadData

SpecNorm == InitNorm /\ [][NextNorm]_vars

(***************************************************************************)
(* Properties.                                                             *)
(***************************************************************************)
\* The dataset the session holds, once load_data has returned one.
Loaded == cache # <<>> /\ cache[1].status = "ok"
df == cache[1]
RowNums == 1..Len(df.rows)
Shown == Range(view.rows)

\* The integer the digits of s denote, read left to right.
RECURSIVE Denoted(_, _)
Denoted(s, acc) ==
  IF s = <<>> THEN acc
  ELSE Denoted(Tail(s), IF IsDigit(Head(s)) THEN acc * 10 + DigitVal(Head(s)) ELSE acc)

\* "$" followed by digits and "," separators.
DollarDigits(s) ==
  /\ Len(s) >= 2
  /\ s[1] = "$"
  /\ \A i \in 2..Len(s) : IsDigit(s[i]) \/ s[i] = ","
  /\ \E i \in 2..Len(s) : IsDigit(s[i])

\* s without its "$" and ",".
Bare(s) == SelectSeq(s, LAMBDA c : c \notin {"$", ","})
\* An optional "-" and then one digit or more.
IsInteger(s) ==
  \/ Len(s) >= 1 /\ \A i \in 1..Len(s) : IsDigit(s[i])
  \/ Len(s) >= 2 /\ s[1] = "-" /\ \A i \in 2..Len(s) : IsDigit(s[i])

\* C5: after normalisation every row's price and sqft is a number >= 0,
\* whatever the raw cells were.
C5_NonNegative ==
  Loaded =>
    \A i \in RowNums :
      /\ IsNum(df.rows[i]["Clean_Price"]) /\ df.rows[i]["Clean_Price"].v >= 0
      /\ IsNum(df.rows[i]["Clean_SqFt"]) /\ df.rows[i]["Clean_SqFt"].v >= 0

\* C6: a textual price "$" + digits with "," separators is normalised to the
\* integer its digits denote; a textual price that is no number once "$" and
\* "," are removed is normalised to 0; and every row is kept.
C6_DollarPrice ==
  Loaded =>
    /\ Len(df.rows) = Len(file.rows)
    /\ \A i \in RowNums :
         LET raw == file.rows[i]["Price"]
         IN  /\ IsStr(raw) /\ DollarDigits(raw.s) =>
                   df.rows[i]["Clean_Price"] = Dec(Denoted(raw.s, 0), 0)
             /\ IsStr(raw) /\ ~IsInteger(Bare(raw.s)) =>
                   df.rows[i]["Clean_Price"] = Dec(0, 0)

\* "$1,250,000" has been normalised to 1250000, and "$a" to 0.
C6_Witness ==
  /\ Loaded
  /\ Len(df.rows) = 2
  /\ file.rows[1]["Price"] = Str(<<"$", "1", ",", "2", "5", "0", ",", "0", "0", "0">>)
  /\ df.rows[1]["Clean_Price"] = Dec(1250000, 0)

\* The value of row i's column, in tenths.
Val(i, col) == df.rows[i][col].v
Has(col) == col \in df.cols

\* Literal, case-sensitive substring.
Substring(s, sub) ==
  \E off \in 0..(Len(s) - Len(sub)) : \A j \in 1..Len(sub) : sub[j] = s[off + j]

\* C1: the result holds exactly the rows that satisfy every active filter
\* term at once, the price term being min <= price <= max with both bounds
\* included, and the count shown is the number of rows kept.
C1_Conjunction ==
  view.kind = "results" =>
    LET keep(i) ==
          /\ IsNum(df.rows[i]["Clean_Price"])
          /\ price_range(df, ui)[1] * 10 <= Val(i, "Clean_Price")
          /\ Val(i, "Clean_Price") <= price_range(df, ui)[2] * 10
          /\ sqft_range(df, ui)[1] * 10 <= Val(i, "Clean_SqFt")
          /\ Val(i, "Clean_SqFt") <= sqft_range(df, ui)[2] * 10
          /\ Has("DOM") =>
                /\ dom_range(df, ui)[1] * 10 <= Val(i, "DOM")
                /\ Val(i, "DOM") <= dom_range(df, ui)[2] * 10
          /\ ui.cities # {} => df.rows[i]["City"].s \in ui.cities
          /\ ui.search # <<>> =>
                AddressMatch(df, Lower(ui.search), i) \/ MlsMatch(df, Lower(ui.search), i)
          /\ Has("Bedrooms Total") =>
                /\ IsNum(df.rows[i]["Bedrooms Total"])
                /\ Val(i, "Bedrooms Total") >= ui.beds * 10
          /\ Has("Bathrooms Total") =>
                /\ IsNum(df.rows[i]["Bathrooms Total"])
                /\ Val(i, "Bathrooms Total") >= ui.baths * 10
    IN  /\ \A i \in RowNums : i \in Shown <=> keep(i)
        /\ view.count = Cardinality({i \in RowNums : keep(i)})
        /\ Len(view.rows) = view.count

\* A moved price slider with min < max, a second filter set, a row shown at
\* the lower bound, a row shown at the upper bound and a row filtered out.
C1_Witness ==
  /\ view.kind = "results"
  /\ ui.price.set
  /\ ui.price.val[1] < ui.price.val[2]
  /\ ui.sqft.set
  /\ \E i \in Shown : Val(i, "Clean_Price") = ui.price.val[1] * 10
  /\ \E i \in Shown : Val(i, "Clean_Price") = ui.price.val[2] * 10
  /\ view.count = 2
  /\ Len(df.rows) = 3

\* C2: with no city selected, the result is the rows the other terms keep:
\* the empty selection removes no row.
C2_EmptyCities ==
  view.kind = "results" /\ Has("City") /\ ui.cities = {} =>
    \A i \in RowNums :
      i \in Shown <=>
        /\ PriceTerm(df, ui, i)
        /\ SqFtTerm(df, ui, i)
        /\ DomTerm(df, ui, i)
        /\ SearchTerm(df, ui.search, i)
        /\ BedsTerm(df, ui, i)
        /\ BathsTerm(df, ui, i)

\* No city selected, another filter set, and rows of two cities shown.
C2_Witness ==
  /\ view.kind = "results"
  /\ Has("City")
  /\ ui.cities = {}
  /\ ui.beds > 0
  /\ \E i, j \in Shown : df.rows[i]["City"] # df.rows[j]["City"]

\* C3: a filter whose field is in no row of the dataset is skipped: the run
\* does not error, and the rows are those the filters on the present fields
\* keep (the search looks at the address and the listing id that exist).
C3_AbsentFieldSkipped ==
  runs > 0 /\ Loaded /\ Len(df.rows) > 0 =>
    /\ view.kind = "results"
    /\ \A i \in RowNums :
         i \in Shown <=>
           /\ PriceTerm(df, ui, i)
           /\ SqFtTerm(df, ui, i)
           /\ DomTerm(df, ui, i)
           /\ Has("City") => CityTerm(df, ui.cities, i)
           /\ ui.search # <<>> =>
                 \/ Has("Address") /\ AddressMatch(df, Lower(ui.search), i)
                 \/ Has("MLS #") /\ MlsMatch(df, Lower(ui.search), i)
           /\ BedsTerm(df, ui, i)
           /\ BathsTerm(df, ui, i)

\* C4: with a search term, a row is kept by the search exactly when the
\* term, letter case ignored, is a substring of its address or of its
\* listing id; without one, the search keeps every row.
C4_SearchIgnoresCase ==
  view.kind = "results" =>
    \A i \in RowNums :
      i \in Shown <=>
        /\ PriceTerm(df, ui, i)
        /\ SqFtTerm(df, ui, i)
        /\ DomTerm(df, ui, i)
        /\ CityTerm(df, selected_cities(df, ui), i)
        /\ BedsTerm(df, ui, i)
        /\ BathsTerm(df, ui, i)
        /\ ui.search # <<>> =>
              \/ /\ IsStr(df.rows[i]["Address"])
                 /\ Substring(Lower(df.rows[i]["Address"].s), Lower(ui.search))
              \/ /\ IsStr(df.rows[i]["MLS #"])
                 /\ Substring(Lower(df.rows[i]["MLS #"].s), Lower(ui.search))

\* The key the chosen sort option orders by.
SortCol ==
  CASE ui.sort = "Price: Low to High" -> "Clean_Price"
    [] ui.sort = "Price: High to Low" -> "Clean_Price"
    [] ui.sort = "Newest (DOM)"       -> "DOM"
    [] OTHER                          -> "Clean_SqFt"

\* C7: the listing is a permutation of the filtered rows, ordered by the
\* key, and rows of equal key keep the order they have in the dataset.
C7_StableSort ==
  view.kind = "results" /\ Has(SortCol) =>
    /\ Range(view.rows) = Range(Filtered(df, ui))
    /\ Len(view.rows) = Len(Filtered(df, ui))
    /\ \A j, k \in 1..Len(view.rows) :
         j < k =>
           LET a == df.rows[view.rows[j]][SortCol]
               b == df.rows[view.rows[k]][SortCol]
           IN  /\ InOrder(a, b, ui.sort \in {"Price: Low to High", "Newest (DOM)"})
               /\ a = b => view.rows[j] < view.rows[k]

\* C8: a rerun works on the dataset normalised from the source as it is at
\* that rerun, never on what an earlier source left in the cache.
C8_CacheFollowsSource ==
  [][runs' = runs + 1 => view' \in Script(load_data(file'), ui')]_vars

\* C9: every failure to read or parse the source (file missing, not a
\* table, no Price column) ends in the one load-error state.
C9_SingleLoadError ==
  runs > 0 /\ load_data(file).status # "ok" => view.kind = "load_error"

\* C10: with every control at its initial value the result holds every row
\* of the dataset.
C10_DefaultsShowAll ==
  view.kind = "results" /\ ui = DefaultUI => Shown = RowNums

====
